---------------------------- MODULE Spec2Model ----------------------------
(***************************************************************************)
(* A model of the Q game server's sign-up phase (runTCPGame and the        *)
(* functions it calls), of BasePlayer's hand bookkeeping, of              *)
(* BaseObserver's state history and of the conversion functions toJState,  *)
(* toJPub and toQState.                                                    *)
(*                                                                         *)
(* Time is in milliseconds.  JavaScript runs one callback (a timer, a      *)
(* socket event, a promise continuation) at a time, to completion; promise *)
(* continuations run before the next timer or socket callback.  Each       *)
(* action below is one such callback together with the continuations it    *)
(* releases, except where a continuation is given its own action and a     *)
(* position of runTCPGame (phase) at which no timer or socket callback is  *)
(* enabled.                                                                *)
(***************************************************************************)
EXTENDS Integers, Sequences, FiniteSets, Bags, TLC

(***************************************************************************)
(* Bounds of the model.                                                    *)
(***************************************************************************)
\* number of remote clients that may try to connect
NumClients == 3
\* config['server-tries'] is drawn from 0 .. MaxServerTries
MaxServerTries == 2
\* the values config['server-wait'] is drawn from (seconds)
ServerWaits == { 1 }
\* the values config['wait-for-signup'] is drawn from (seconds)
SignupWaits == { 1, 2 }
\* number of players that have signed up when a crowded waiting period is
\* looked at
NumEarlier == 2

(***************************************************************************)
(* Program constants.                                                      *)
(***************************************************************************)
\* src/unnamed/part_000:153 "const checkIntervalMs = 200"
checkIntervalMs == 200
\* constants.ts is not part of the sources at hand; the values are the ones
\* of the specification's sign-up example (minimum=2, maximum=4)
SERVER_MIN_PLAYERS == 2
SERVER_MAX_PLAYERS == 4
\* src/unnamed/part_000:47 "const EMPTY_RESULT: GameResult = [[], []]"
EMPTY_RESULT == << <<>>, <<>> >>

\* runTCPGame has not returned yet
NoResult == << >>

\* utils.toMs is not part of the sources at hand: durations of the
\* configuration are seconds, converted to milliseconds
toMs(seconds) == seconds * 1000

Clients == 1 .. NumClients

Configs ==
    [ serverTries   : 0 .. MaxServerTries,
      serverWait    : ServerWaits,
      waitForSignup : SignupWaits ]

VARIABLES
    config,             \* the ServerConfig runTCPGame was called with
    phase,              \* position of runTCPGame
    handlerOn,          \* is handleConnection registered on 'connection'
    serverOpen,         \* does the net.Server accept connections
    players,            \* the roster: Player[] (a TCPPlayer is named by its client)
    connections,        \* Connection[]
    sock,               \* per client: its socket
    nameState,          \* per client: the promise of the name() call of signUp
    raceWinner,         \* per client: what settled the Promise.race of signUp
    deadline,           \* per client: when the sign-up timeout is due (0: no timer)
    now,                \* Date.now()
    start,              \* waitForAdditionalPlayers: start of the current period
    attempt,            \* waitForAdditionalPlayers: the attempt parameter
    intervalOn,         \* is the setInterval timer of the current period set
    nextCheck,          \* when that timer fires next
    enoughPlayersToRun, \* what waitForAdditionalPlayers resolved
    gameStarted,        \* has startGame been called
    gameResult,         \* what runTCPGame returns (NoResult before)
    asked,              \* runGameIfPossible: the players whose name() it awaits
    winCalls,           \* per client: number of win(false) calls received
    winThrew,           \* clients whose win(false) threw
    tiles,              \* BasePlayer.tiles: the hand
    map,                \* BasePlayer.map
    call,               \* the call made on the BasePlayer, with its arguments
    returned,           \* has that call returned
    handBefore,         \* BasePlayer.tiles when the call was made
    action,             \* what the strategy suggested in takeTurn
    stateHistory,       \* BaseObserver.stateHistory
    currentStateIndex,  \* BaseObserver.currentStateIndex (counts from 0)
    imagesSaved,        \* indices i for which Tmp/i.png was written
    viewCalls,          \* what the last call made on the BaseObserver passed
                        \* to the update-view callback, call by call
    obsCall,            \* the last call made on the BaseObserver
    received,           \* the game state that call passed, if it was receiveState
    saved,              \* what the last saveState wrote to its file
    threw,              \* did the last call made on the BaseObserver throw
    conv,               \* the call made on a conversion function, with its arguments
    convOut,            \* what that call returned
    convThrew           \* has that call thrown instead

waitVars == << now, start, attempt, intervalOn, nextCheck >>
signUpVars == << players, connections, sock, nameState, raceWinner, deadline >>
gameVars ==
    << enoughPlayersToRun, gameStarted, gameResult, asked, winCalls, winThrew >>
serverVars == << config, phase, handlerOn, serverOpen >>

playerVars == << tiles, map, call, returned, handBefore, action >>
observerVars ==
    << stateHistory, currentStateIndex, imagesSaved, viewCalls, obsCall,
       received, saved, threw >>
jsonVars == << conv, convOut, convThrew >>
tcpVars == << serverVars, signUpVars, waitVars, gameVars >>

vars == << tcpVars, playerVars, observerVars, jsonVars >>

----------------------------------------------------------------------------
(***************************************************************************)
(* Helpers.                                                                *)
(***************************************************************************)
Range(s) == { s[i] : i \in 1 .. Len(s) }

Min(S) == CHOOSE x \in S : \A y \in S : x <= y

\* the deadlines of the timers that are set and can still act
PendingDeadlines ==
    (IF intervalOn THEN { nextCheck } ELSE {})
        \cup { deadline[c] : c \in { d \in Clients : raceWinner[d] = "pending" } }

\* At "resolved" and "returned" a promise continuation of runTCPGame is ready
\* to run: it runs before any timer or socket callback.  At "done" and
\* "failed" runTCPGame has returned or rejected, and the model follows the
\* server no further.
Continuing == phase \in { "resolved", "returned", "done", "failed" }

----------------------------------------------------------------------------
(***************************************************************************)
(* Tiles, turn actions and game states.                                    *)
(***************************************************************************)
\* longest hand of a player
MaxHand == 3
\* most placements of one PLACE action
MaxPlacements == 2
\* most states the observer receives
MaxHistory == 3

Shapes == { "star", "circle" }
Colors == { "red", "blue" }

\* a tile is a value with a shape and a color; three tiles, two of which
\* agree in shape and two in color
Tiles ==
    { t \in [ shape : Shapes, color : Colors ] :
        ~(t.shape = "circle" /\ t.color = "blue") }

\* QTile.equals: two tiles are equal when shape and color agree
equals(a, b) == a.shape = b.shape /\ a.color = b.color

SeqsUpTo(S, n) == UNION { [1 .. k -> S] : k \in 0 .. n }

Hands == SeqsUpTo(Tiles, MaxHand)

\* the placements of a PLACE action: tiles, each with its coordinate; the
\* k-th placement is given the coordinate (k, 0)
Placements ==
    { [k \in 1 .. Len(ts) |-> [tile |-> ts[k], coordinate |-> << k, 0 >>]] :
        ts \in SeqsUpTo(Tiles, MaxPlacements) \ { <<>> } }

\* TurnAction: PASS, EXCHANGE or PLACE with its placements
TurnActions ==
    { [type |-> "PASS", placements |-> <<>>],
      [type |-> "EXCHANGE", placements |-> <<>>] }
        \cup { [type |-> "PLACE", placements |-> ps] : ps \in Placements }

NoAction == [type |-> "none", placements |-> <<>>]

\* TilePlacement[]: the maps a player is shown
Maps ==
    { <<>>,
      << [tile |-> [shape |-> "star", color |-> "red"], coordinate |-> << 0, 0 >>] >> }

\* the calls of the Player interface, lines 15-54, with their arguments:
\* setUp(m, st), takeTurn({ mapState: m, playerTiles: st }), newTiles(st),
\* win(w)
PlayerCalls ==
    [ op : { "setUp", "takeTurn" }, m : Maps, st : Hands, w : { FALSE } ]
        \cup [ op : { "newTiles" }, m : { <<>> }, st : Hands, w : { FALSE } ]
        \cup [ op : { "win" }, m : { <<>> }, st : { <<>> }, w : BOOLEAN ]

\* a BasePlayer in any state it can be brought to by setUp (lines 83-86),
\* about to receive any call
PlayerInit ==
    /\ tiles \in Hands
    /\ map \in Maps
    /\ call \in PlayerCalls
    /\ returned = FALSE
    /\ handBefore = tiles
    /\ action = NoAction

\* a BasePlayer as constructed, lines 69-77, with no call to come
PlayerIdle ==
    /\ tiles = <<>>
    /\ map = <<>>
    /\ call = [op |-> "win", m |-> <<>>, st |-> <<>>, w |-> FALSE]
    /\ returned = TRUE
    /\ handBefore = <<>>
    /\ action = NoAction

Names == { "ann", "bob", "cat" }
Scores == { 0, 3 }

\* most players of a game state handed to a conversion function: as many
\* as there are names (two players may still bear the same name)
MaxStatePlayers == Cardinality(Names)
\* most tiles left in the bag of such a game state
MaxBag == 2

\* RenderablePlayer: name, score and tiles (no tile or one)
RenderablePlayers ==
    [ name : Names, score : Scores,
      tiles : { <<>>, << [shape |-> "star", color |-> "red"] >> } ]

\* RenderableGameState, as far as the observer and the serializers read it
\* (the map is left out: no conversion of the map is among the sources)
RenderableGameStates ==
    [ players : SeqsUpTo(RenderablePlayers, MaxStatePlayers),
      remainingTiles : SeqsUpTo(Tiles, MaxBag) ]

\* the game states the observer is sent
GameStates ==
    { [players |-> <<>>, remainingTiles |-> <<>>],
      [players |-> << [name |-> "ann", score |-> 0,
                       tiles |-> << [shape |-> "star", color |-> "red"] >>] >>,
       remainingTiles |-> << [shape |-> "star", color |-> "red"],
                             [shape |-> "star", color |-> "blue"] >>],
      [players |-> << [name |-> "ann", score |-> 3, tiles |-> <<>>],
                      [name |-> "bob", score |-> 0, tiles |-> <<>>] >>,
       remainingTiles |-> <<>>] }

\* JTile: the JSON object of a tile
JTiles == { [color |-> t.color, shape |-> t.shape] : t \in Tiles }

\* JPlayer as toQState reads it: score and 'tile*' (no tile or one)
JPlayers ==
    [ score : Scores,
      tileStar : { <<>>, << [color |-> "blue", shape |-> "star"] >> } ]

\* JState as toQState reads it: 'tile*' and a non-empty list of players
JStates ==
    [ tileStar : SeqsUpTo(JTiles, MaxBag),
      players : SeqsUpTo(JPlayers, MaxStatePlayers) \ { <<>> } ]

\* the Player objects toQState is given: a player stands for itself under
\* its name
PlayerLists == SeqsUpTo(Names, MaxStatePlayers)

NoGameState == [players |-> <<>>, remainingTiles |-> <<>>]
NoJState == [tileStar |-> <<>>, players |-> <<>>]

\* the calls of the conversion functions, with their arguments:
\* toJPub(gameState, playerName) and toQState(jState, players)
ConversionCalls ==
    [ fn : { "toJPub" }, gameState : RenderableGameStates, playerName : Names,
      jState : { NoJState }, players : { <<>> } ]
        \cup [ fn : { "toQState" }, gameState : { NoGameState },
               playerName : { "ann" }, jState : JStates, players : PlayerLists ]

\* no conversion is called
JsonIdle ==
    /\ conv = [fn |-> "none", gameState |-> NoGameState, playerName |-> "ann",
               jState |-> NoJState, players |-> <<>>]
    /\ convOut = <<>>
    /\ convThrew = FALSE

\* gameStateHtmlBuilder is not part of the sources at hand: the html of a
\* game state stands for that state
gameStateHtmlBuilder(gameState) == << "html", gameState >>

\* BaseObserver's constructor, lines 76-82
ObserverInit ==
    /\ stateHistory = <<>>
    /\ currentStateIndex = 0
    /\ imagesSaved = {}
    /\ viewCalls = <<>>
    /\ obsCall = "none"
    /\ received = <<>>
    /\ saved = <<>>
    /\ threw = FALSE

----------------------------------------------------------------------------
(***************************************************************************)
(* runTCPGame up to its first await: the state after lines 76-91.          *)
(***************************************************************************)
NoSignUps ==
    /\ players = <<>>
    /\ connections = <<>>
    /\ sock = [c \in Clients |-> "none"]
    /\ nameState = [c \in Clients |-> "none"]
    /\ raceWinner = [c \in Clients |-> "none"]
    /\ deadline = [c \in Clients |-> 0]

NoGame ==
    /\ enoughPlayersToRun = FALSE
    /\ gameStarted = FALSE
    /\ gameResult = NoResult
    /\ asked = <<>>
    /\ winCalls = [c \in Clients |-> 0]
    /\ winThrew = {}

Init ==
    /\ config \in Configs
    /\ phase = "listening"
    /\ handlerOn = FALSE
    /\ serverOpen = TRUE
    /\ NoSignUps
    /\ now = 0 /\ start = 0 /\ attempt = 0
    /\ intervalOn = FALSE /\ nextCheck = 0
    /\ NoGame
    /\ PlayerIdle
    /\ ObserverInit
    /\ JsonIdle

----------------------------------------------------------------------------
(***************************************************************************)
(* waitForAdditionalPlayers.                                               *)
(***************************************************************************)
\* a wait that notes its start and sets no interval timer
waitWithoutInterval(a) ==
    /\ attempt' = a
    /\ start' = now
    /\ intervalOn' = FALSE
    /\ nextCheck' = nextCheck

\* lines 151-154: a call notes Date.now() as the start of its period and
\* sets its interval timer
waitForAdditionalPlayers(a) ==
    /\ attempt' = a
    /\ start' = now
    /\ intervalOn' = TRUE
    /\ nextCheck' = now + checkIntervalMs

\* line 155
RosterFull == Len(players) >= SERVER_MAX_PLAYERS

\* line 158
PeriodExpired == now >= start + toMs(config.serverWait)

\* a test of the minimum that is off by one
RosterSufficientOffByOne == Len(players) >= SERVER_MIN_PLAYERS - 1

\* line 159
RosterSufficient == Len(players) >= SERVER_MIN_PLAYERS

\* a retry test that is off by one
MayRetryOffByOne == attempt <= config.serverTries

\* line 162
MayRetry == attempt < config.serverTries

\* a resolve(b) that leaves the interval timer set
ResolveKeepingInterval(b) ==
    /\ intervalOn' = intervalOn
    /\ enoughPlayersToRun' = b
    /\ phase' = "resolved"
    /\ UNCHANGED << start, attempt, nextCheck >>

\* resolve(b) with clearInterval: the promise runTCPGame awaits is resolved
\* through the chain of .then(resolve) of lines 89 and 167
Resolve(b) ==
    /\ intervalOn' = FALSE
    /\ enoughPlayersToRun' = b
    /\ phase' = "resolved"
    /\ UNCHANGED << start, attempt, nextCheck >>

\* lines 154-173: one firing of the interval timer
IntervalCheck ==
    /\ phase = "waiting"
    /\ intervalOn
    /\ now = nextCheck
    /\ IF RosterFull
         THEN Resolve(TRUE)
         ELSE IF PeriodExpired
                THEN IF RosterSufficient
                       THEN Resolve(TRUE)
                       ELSE IF MayRetry
                              THEN /\ waitForAdditionalPlayers(attempt + 1)
                                   /\ UNCHANGED << enoughPlayersToRun, phase >>
                              ELSE Resolve(FALSE)
                ELSE /\ nextCheck' = now + checkIntervalMs
                     /\ UNCHANGED << start, attempt, intervalOn,
                                     enoughPlayersToRun, phase >>
    /\ UNCHANGED << config, handlerOn, serverOpen, signUpVars, now,
                    gameStarted, gameResult, asked, winCalls, winThrew >>
    /\ UNCHANGED << playerVars, observerVars, jsonVars >>

\* the clock advances to the next instant at which a timer is due; a timer
\* that is due fires before the clock moves on
Tick ==
    /\ ~Continuing
    /\ PendingDeadlines # {}
    /\ now < Min(PendingDeadlines)
    /\ now' = Min(PendingDeadlines)
    /\ UNCHANGED << serverVars, signUpVars, start, attempt, intervalOn,
                    nextCheck, gameVars >>
    /\ UNCHANGED << playerVars, observerVars, jsonVars >>

----------------------------------------------------------------------------
(***************************************************************************)
(* Connections and signUp.                                                 *)
(***************************************************************************)
\* a push that writes at an index read before another push: it overwrites
\* the last entry
PushOverwrite(roster, c) ==
    IF roster = <<>> THEN << c >> ELSE [roster EXCEPT ![Len(roster)] = c]

\* line 272: players.push(player)
Push(roster, c) == Append(roster, c)

\* lines 128-130 and 262-278: the connection is recorded, a TCPPlayer is
\* made, and signUp asks its name and sets the sign-up timeout
handleConnection(c) ==
    /\ connections' = Append(connections, c)
    /\ sock' = [sock EXCEPT ![c] = "handled"]
    /\ nameState' = [nameState EXCEPT ![c] = "pending"]
    /\ raceWinner' = [raceWinner EXCEPT ![c] = "pending"]
    /\ deadline' = [deadline EXCEPT ![c] = now + toMs(config.waitForSignup)]
    /\ UNCHANGED players

\* the next client connects: the server emits 'connection' to the listeners
\* registered at that moment: the once-listener of line 88 (while runTCPGame
\* awaits its first connection) and handleConnection (once line 93 ran)
Connect ==
    /\ serverOpen
    /\ ~Continuing
    /\ \E c \in Clients :
        /\ sock[c] = "none"
        /\ \A d \in Clients : d < c => sock[d] # "none"
        /\ IF phase = "listening"
             THEN /\ phase' = "waiting"
                  /\ waitForAdditionalPlayers(1)
             ELSE UNCHANGED << phase, start, attempt, intervalOn, nextCheck >>
        /\ IF handlerOn
             THEN handleConnection(c)
             ELSE /\ sock' = [sock EXCEPT ![c] = "unhandled"]
                  /\ UNCHANGED << players, connections, nameState,
                                  raceWinner, deadline >>
    /\ UNCHANGED << config, handlerOn, serverOpen, now, gameVars >>
    /\ UNCHANGED << playerVars, observerVars, jsonVars >>

\* lines 269-281: the state of the promise signUp returns, given what
\* settled the race: a race that rejected (the name() call failed, or the
\* timeout fired) is caught at line 279, and the promise resolves
signUpPromise(winner) ==
    IF winner \in { "none", "pending" }
      THEN winner
      ELSE "resolved"

\* lines 270-273: the player's name arrives; the callback pushes the player,
\* whether or not the race of line 269 is already settled
NameResolve(c) ==
    /\ ~Continuing
    /\ nameState[c] = "pending"
    /\ sock[c] = "handled"
    /\ nameState' = [nameState EXCEPT ![c] = "resolved"]
    /\ players' = Push(players, c)
    /\ IF raceWinner[c] = "pending"
         THEN /\ raceWinner' = [raceWinner EXCEPT ![c] = "name"]
              /\ deadline' = [deadline EXCEPT ![c] = 0]
         ELSE UNCHANGED << raceWinner, deadline >>
    /\ UNCHANGED << serverVars, connections, sock, waitVars, gameVars >>
    /\ UNCHANGED << playerVars, observerVars, jsonVars >>

\* the name() call fails: the race rejects and line 279 catches it
NameReject(c) ==
    /\ ~Continuing
    /\ nameState[c] = "pending"
    /\ nameState' = [nameState EXCEPT ![c] = "rejected"]
    /\ IF raceWinner[c] = "pending"
         THEN /\ raceWinner' = [raceWinner EXCEPT ![c] = "nameError"]
              /\ deadline' = [deadline EXCEPT ![c] = 0]
         ELSE UNCHANGED << raceWinner, deadline >>
    /\ UNCHANGED << serverVars, players, connections, sock, waitVars, gameVars >>
    /\ UNCHANGED << playerVars, observerVars, jsonVars >>

\* lines 274-281: the sign-up timeout fires first: the race rejects and
\* line 279 catches it; the name() call stays outstanding.  (A timeout that
\* fires after the race is settled changes nothing and is left out.)
SignUpTimeout(c) ==
    /\ ~Continuing
    /\ raceWinner[c] = "pending"
    /\ now >= deadline[c]
    /\ raceWinner' = [raceWinner EXCEPT ![c] = "timer"]
    /\ deadline' = [deadline EXCEPT ![c] = 0]
    /\ UNCHANGED << serverVars, players, connections, sock, nameState,
                    waitVars, gameVars >>
    /\ UNCHANGED << playerVars, observerVars, jsonVars >>

----------------------------------------------------------------------------
(***************************************************************************)
(* runGameIfPossible and the end of runTCPGame.                            *)
(***************************************************************************)
\* a loop with the try around it instead of in it: the first throw ends it
informStopsAtThrow(roster, throwing) ==
    IF \E i \in 1 .. Len(roster) : roster[i] \in throwing
      THEN SubSeq(roster, 1,
                  Min({ i \in 1 .. Len(roster) : roster[i] \in throwing }))
      ELSE roster

\* lines 204-212: the players on which win(false) is called, in order, given
\* the set of players whose win throws
informPlayersOfNoGame(roster, throwing) == roster

Occurrences(s, c) == Cardinality({ i \in 1 .. Len(s) : s[i] = c })

\* the test of line 190 inverted
GameIsRunInverted(enough) == ~enough

\* line 190
GameIsRun(enough) == enough

\* lines 93-101 and 185-198: runTCPGame registers handleConnection and calls
\* runGameIfPossible, which runs up to its first await or its return
runGameIfPossible ==
    /\ phase = "resolved"
    /\ handlerOn' = TRUE
    /\ IF GameIsRun(enoughPlayersToRun)
         THEN /\ asked' = players
              /\ phase' = "naming"
              /\ UNCHANGED << gameResult, winCalls, winThrew >>
         ELSE \E throwing \in SUBSET Range(players) :
                LET calls == informPlayersOfNoGame(players, throwing) IN
                /\ winCalls' = [c \in Clients |->
                                    winCalls[c] + Occurrences(calls, c)]
                /\ winThrew' = winThrew \cup (throwing \cap Range(calls))
                /\ gameResult' = EMPTY_RESULT
                /\ phase' = "returned"
                /\ UNCHANGED asked
    /\ UNCHANGED << config, serverOpen, signUpVars, waitVars,
                    enoughPlayersToRun, gameStarted >>
    /\ UNCHANGED << playerVars, observerVars, jsonVars >>

\* lines 103-105: terminateConnections, server.close(), return
Finish ==
    /\ phase = "returned"
    /\ sock' = [c \in Clients |->
                    IF c \in Range(connections) THEN "closed" ELSE sock[c]]
    /\ serverOpen' = FALSE
    /\ phase' = "done"
    /\ UNCHANGED << config, handlerOn, players, connections, nameState,
                    raceWinner, deadline, waitVars, gameVars >>
    /\ UNCHANGED << playerVars, observerVars, jsonVars >>

----------------------------------------------------------------------------
(***************************************************************************)
(* runTCPGame as it is wired: handleConnection is registered only once     *)
(* the promise of lines 87-91 is resolved, so no sign-up is in progress    *)
(* before, and the actions of signUp are not enabled (NoSignUpWhileWaiting *)
(* below).                                                                 *)
(***************************************************************************)
Next ==
    \/ Connect
    \/ Tick
    \/ IntervalCheck
    \/ runGameIfPossible
    \/ Finish

Spec == Init /\ [][Next]_vars

\* timers fire and promise continuations run; clients need not connect
FairSpec ==
    /\ Spec
    /\ WF_vars(Tick)
    /\ WF_vars(IntervalCheck)
    /\ WF_vars(runGameIfPossible)
    /\ WF_vars(Finish)

----------------------------------------------------------------------------
(***************************************************************************)
(* The branch of runGameIfPossible that runs the game.  BaseReferee is not *)
(* part of the sources at hand: the game is one step that yields the       *)
(* referee's result, whatever it is.                                       *)
(***************************************************************************)
\* the GameResult BaseReferee resolves: some winners, some eliminated
RefereeResult == << << "winners" >>, << "eliminated" >> >>

\* line 191 resolves: every name() call of line 191 answered; line 193
\* calls startGame
NamesAnswered ==
    /\ phase = "naming"
    /\ gameStarted' = TRUE
    /\ phase' = "running"
    /\ UNCHANGED << config, handlerOn, serverOpen, signUpVars, waitVars,
                    enoughPlayersToRun, gameResult, asked, winCalls, winThrew >>
    /\ UNCHANGED << playerVars, observerVars, jsonVars >>

\* line 191 rejects: a name() call failed; runGameIfPossible and with it
\* runTCPGame reject
NamesFail ==
    /\ phase = "naming"
    /\ asked # <<>>
    /\ phase' = "failed"
    /\ UNCHANGED << config, handlerOn, serverOpen, signUpVars, waitVars, gameVars >>
    /\ UNCHANGED << playerVars, observerVars, jsonVars >>

\* lines 193-194: the referee's result is returned
GameOver ==
    /\ phase = "running"
    /\ gameResult' = RefereeResult
    /\ phase' = "returned"
    /\ UNCHANGED << config, handlerOn, serverOpen, signUpVars, waitVars,
                    enoughPlayersToRun, gameStarted, asked, winCalls, winThrew >>
    /\ UNCHANGED << playerVars, observerVars, jsonVars >>

(***************************************************************************)
(* The sign-up phase as the doc comments of runTCPGame (lines 57-72) and   *)
(* waitForAdditionalPlayers (lines 133-142) describe it: a call of         *)
(* waitForAdditionalPlayers(players, config) is in progress while          *)
(* handleConnection is called for every client that connects.              *)
(***************************************************************************)
LobbyInit ==
    /\ config \in Configs
    /\ phase = "waiting"
    /\ handlerOn = TRUE
    /\ serverOpen = TRUE
    /\ NoSignUps
    /\ now = 0 /\ start = 0 /\ attempt = 1
    /\ intervalOn = TRUE /\ nextCheck = checkIntervalMs
    /\ NoGame
    /\ PlayerIdle
    /\ ObserverInit
    /\ JsonIdle

LobbyNext ==
    \/ Connect
    \/ \E c \in Clients : NameResolve(c)
    \/ \E c \in Clients : NameReject(c)
    \/ \E c \in Clients : SignUpTimeout(c)
    \/ Tick
    \/ IntervalCheck
    \/ runGameIfPossible
    \/ NamesAnswered
    \/ NamesFail
    \/ GameOver
    \/ Finish

LobbySpec == LobbyInit /\ [][LobbyNext]_vars

(***************************************************************************)
(* runGameIfPossible(enoughPlayersToRun, players, config) called with any  *)
(* flag and any roster of signed-up players.                               *)
(***************************************************************************)
Rosters ==
    { r \in UNION { [1 .. n -> Clients] : n \in 0 .. NumClients } :
        \A i, j \in 1 .. Len(r) : i # j => r[i] # r[j] }

CallInit ==
    /\ config = [serverTries |-> 1, serverWait |-> 1, waitForSignup |-> 1]
    /\ phase = "resolved"
    /\ handlerOn = FALSE
    /\ serverOpen = TRUE
    /\ players \in Rosters
    /\ connections = players
    /\ sock = [c \in Clients |-> IF c \in Range(players) THEN "handled" ELSE "none"]
    /\ nameState = [c \in Clients |->
                        IF c \in Range(players) THEN "resolved" ELSE "none"]
    /\ raceWinner = [c \in Clients |->
                        IF c \in Range(players) THEN "name" ELSE "none"]
    /\ deadline = [c \in Clients |-> 0]
    /\ now = 0 /\ start = 0 /\ attempt = 1
    /\ intervalOn = FALSE /\ nextCheck = 0
    /\ enoughPlayersToRun \in BOOLEAN
    /\ gameStarted = FALSE
    /\ gameResult = NoResult
    /\ asked = <<>>
    /\ winCalls = [c \in Clients |-> 0]
    /\ winThrew = {}
    /\ PlayerIdle
    /\ ObserverInit
    /\ JsonIdle

CallNext ==
    \/ runGameIfPossible
    \/ NamesAnswered
    \/ NamesFail
    \/ GameOver
    \/ Finish

CallSpec == CallInit /\ [][CallNext]_vars

(***************************************************************************)
(* A crowded sign-up phase: a call of waitForAdditionalPlayers is in       *)
(* progress, handleConnection is called for every client that connects,    *)
(* and either nobody or NumEarlier players have signed up already.         *)
(***************************************************************************)
\* the players that signed up earlier, in the order of their sign-up
EarlierRoster == [k \in 1 .. NumEarlier |-> NumClients + k]

CrowdInit ==
    /\ config \in { c \in Configs :
                        c.serverTries = MaxServerTries /\ c.waitForSignup = 1 }
    /\ phase = "waiting"
    /\ handlerOn = TRUE
    /\ serverOpen = TRUE
    /\ players \in { <<>>, EarlierRoster }
    /\ connections = players
    /\ sock = [c \in Clients |-> "none"]
    /\ nameState = [c \in Clients |-> "none"]
    /\ raceWinner = [c \in Clients |-> "none"]
    /\ deadline = [c \in Clients |-> 0]
    /\ now = 0 /\ start = 0 /\ attempt = 1
    /\ intervalOn = TRUE /\ nextCheck = checkIntervalMs
    /\ NoGame
    /\ PlayerIdle
    /\ ObserverInit
    /\ JsonIdle

CrowdSpec == CrowdInit /\ [][LobbyNext]_vars

----------------------------------------------------------------------------
(***************************************************************************)
(* BasePlayer.                                                             *)
(***************************************************************************)
\* does some placement of the action place a tile equal to playerTile
\* (line 110: action.getPlacements().find(...))
PlacesTile(turnAction, playerTile) ==
    \E k \in 1 .. Len(turnAction.placements) :
        equals(playerTile, turnAction.placements[k].tile)

\* a reduction that forgets the EXCHANGE branch
reduceOnlyPlaced(hand, turnAction) ==
    IF turnAction.type = "PLACE"
      THEN SelectSeq(hand, LAMBDA playerTile : ~PlacesTile(turnAction, playerTile))
      ELSE hand

\* lines 106-115, as a function of the hand and the action: the new hand
reduceExistingTiles(hand, turnAction) ==
    IF turnAction.type = "PLACE"
      THEN SelectSeq(hand, LAMBDA playerTile : ~PlacesTile(turnAction, playerTile))
      ELSE IF turnAction.type = "EXCHANGE"
             THEN <<>>
             ELSE hand

Calling(op) == ~returned /\ call.op = op

\* lines 83-86
setUp ==
    /\ Calling("setUp")
    /\ map' = call.m
    /\ tiles' = call.st
    /\ returned' = TRUE
    /\ UNCHANGED << call, handBefore, action, tcpVars, observerVars, jsonVars >>

\* lines 88-104; the strategy's suggestion is any turn action
takeTurn ==
    /\ Calling("takeTurn")
    /\ \E suggestMove \in TurnActions :
        /\ map' = call.m
        /\ tiles' = reduceExistingTiles(call.st, suggestMove)
        /\ action' = suggestMove
    /\ returned' = TRUE
    /\ UNCHANGED << call, handBefore, tcpVars, observerVars, jsonVars >>

\* a hand that is replaced by the new tiles
spreadReplacing(hand, st) == st

\* line 118: [...this.tiles, ...st]
spread(hand, st) == hand \o st

\* lines 117-119
newTiles ==
    /\ Calling("newTiles")
    /\ tiles' = spread(tiles, call.st)
    /\ returned' = TRUE
    /\ UNCHANGED << map, call, handBefore, action, tcpVars, observerVars, jsonVars >>

\* lines 121-123
win ==
    /\ Calling("win")
    /\ returned' = TRUE
    /\ UNCHANGED << tiles, map, call, handBefore, action, tcpVars, observerVars, jsonVars >>

\* the server parts at rest, for the specifications of the player and of
\* the observer
TcpIdle ==
    /\ config = [serverTries |-> 1, serverWait |-> 1, waitForSignup |-> 1]
    /\ phase = "listening"
    /\ handlerOn = FALSE
    /\ serverOpen = TRUE
    /\ NoSignUps
    /\ now = 0 /\ start = 0 /\ attempt = 0
    /\ intervalOn = FALSE /\ nextCheck = 0
    /\ NoGame

PlayerSpecInit == TcpIdle /\ PlayerInit /\ ObserverInit /\ JsonIdle

PlayerNext ==
    \/ setUp
    \/ takeTurn
    \/ newTiles
    \/ win

PlayerSpec == PlayerSpecInit /\ [][PlayerNext]_vars

----------------------------------------------------------------------------
(***************************************************************************)
(* BaseObserver.                                                           *)
(***************************************************************************)
\* a view that shows the state received last instead of the current one
updateGUIViewLatest(history, index) == gameStateHtmlBuilder(history[Len(history)])

\* lines 172-176: the argument of the one call of updateViewCallback;
\* stateHistory counts from 1 here, currentStateIndex from 0 as in the code
updateGUIView(history, index) == gameStateHtmlBuilder(history[index + 1])

\* a history that takes the new state at its front
saveStateToMemoryAtFront(history, gameState) == << gameState >> \o history

\* lines 113-115: this.stateHistory.push(gameState)
saveStateToMemory(history, gameState) == Append(history, gameState)

\* lines 107-111
receiveState(gameState) ==
    /\ Len(stateHistory) < MaxHistory
    /\ stateHistory' = saveStateToMemory(stateHistory, gameState)
    /\ imagesSaved' = imagesSaved \cup { Len(stateHistory') - 1 }
    /\ viewCalls' = << updateGUIView(stateHistory', currentStateIndex) >>
    /\ obsCall' = "receiveState"
    /\ received' = << gameState >>
    /\ threw' = FALSE
    /\ UNCHANGED << currentStateIndex, saved, tcpVars, playerVars, jsonVars >>

\* line 145
HasNextState == currentStateIndex < Len(stateHistory) - 1

\* line 152
HasPreviousState == currentStateIndex > 0

\* lines 144-149
nextState ==
    /\ IF HasNextState
         THEN /\ currentStateIndex' = currentStateIndex + 1
              /\ viewCalls' = << updateGUIView(stateHistory, currentStateIndex') >>
         ELSE /\ currentStateIndex' = currentStateIndex
              /\ viewCalls' = <<>>
    /\ obsCall' = "nextState"
    /\ received' = <<>>
    /\ threw' = FALSE
    /\ UNCHANGED << stateHistory, imagesSaved, saved, tcpVars, playerVars,
                    jsonVars >>

\* lines 151-156
previousState ==
    /\ IF HasPreviousState
         THEN /\ currentStateIndex' = currentStateIndex - 1
              /\ viewCalls' = << updateGUIView(stateHistory, currentStateIndex') >>
         ELSE /\ currentStateIndex' = currentStateIndex
              /\ viewCalls' = <<>>
    /\ obsCall' = "previousState"
    /\ received' = <<>>
    /\ threw' = FALSE
    /\ UNCHANGED << stateHistory, imagesSaved, saved, tcpVars, playerVars,
                    jsonVars >>

\* toJTile is not part of the sources at hand: the JSON object of a tile
\* carries its color and its shape
toJTile(tile) == [color |-> tile.color, shape |-> tile.shape]

\* toJPlayer is not part of the sources at hand: the JSON object of a
\* player carries its score, its name and the JSON objects of its tiles
toJPlayer(player) ==
    [ score |-> player.score,
      name |-> player.name,
      tileStar |-> [k \in 1 .. Len(player.tiles) |-> toJTile(player.tiles[k])] ]

Reverse(s) == [k \in 1 .. Len(s) |-> s[Len(s) + 1 - k]]

\* a serialization that lists the players last to first
toJStateReversed(gameState) ==
    [ tileStar |-> [k \in 1 .. Len(gameState.remainingTiles) |->
                        toJTile(gameState.remainingTiles[k])],
      players |-> Reverse([k \in 1 .. Len(gameState.players) |->
                              toJPlayer(gameState.players[k])]) ]

\* jState.ts lines 16-18: toJState throws when there is no player
toJStateThrows(gameState) == Len(gameState.players) = 0

\* jState.ts lines 10-26, when it does not throw
toJState(gameState) ==
    [ tileStar |-> [k \in 1 .. Len(gameState.remainingTiles) |->
                        toJTile(gameState.remainingTiles[k])],
      players |-> [k \in 1 .. Len(gameState.players) |->
                        toJPlayer(gameState.players[k])] ]

\* lines 158-161: saveState(filepath) writes the JSON of the state at
\* currentStateIndex; with an empty history that state is undefined and
\* toJState throws a TypeError reading it
saveState ==
    /\ IF stateHistory = <<>>
         THEN /\ threw' = TRUE
              /\ saved' = saved
         ELSE LET gameState == stateHistory[currentStateIndex + 1] IN
              IF toJStateThrows(gameState)
                THEN /\ threw' = TRUE
                     /\ saved' = saved
                ELSE /\ threw' = FALSE
                     /\ saved' = << toJState(gameState) >>
    /\ obsCall' = "saveState"
    /\ received' = <<>>
    /\ viewCalls' = <<>>
    /\ UNCHANGED << stateHistory, currentStateIndex, imagesSaved, tcpVars,
                    playerVars, jsonVars >>

ObserverSpecInit == TcpIdle /\ PlayerIdle /\ ObserverInit /\ JsonIdle

ObserverNext ==
    \/ \E gameState \in GameStates : receiveState(gameState)
    \/ nextState
    \/ previousState
    \/ saveState

ObserverSpec == ObserverSpecInit /\ [][ObserverNext]_vars

----------------------------------------------------------------------------
(***************************************************************************)
(* The conversion functions toJPub (jState.ts) and toQState (qState.ts).   *)
(***************************************************************************)
\* the indices of the players that bear the name
Named(statePlayers, playerName) ==
    { i \in 1 .. Len(statePlayers) : statePlayers[i].name = playerName }

\* jState.ts lines 46-49: players.find(...) finds no player
toJPubPlayersThrows(statePlayers, playerName) == Named(statePlayers, playerName) = {}

\* a list that puts the named player first without taking it out of the
\* scores
toJPubPlayersKeepsAll(statePlayers, playerName) ==
    << toJPlayer(statePlayers[Min(Named(statePlayers, playerName))]) >>
        \o [k \in 1 .. Len(statePlayers) |-> statePlayers[k].score]

\* jState.ts lines 42-54, when it does not throw: the JSON object of the
\* first player of that name, then the scores of the players of another name
toJPubPlayers(statePlayers, playerName) ==
    LET player == statePlayers[Min(Named(statePlayers, playerName))]
        otherPlayers == SelectSeq(statePlayers, LAMBDA p : p.name # playerName)
        otherPlayersScores ==
            [k \in 1 .. Len(otherPlayers) |-> otherPlayers[k].score]
    IN  << toJPlayer(player) >> \o otherPlayersScores

\* jState.ts lines 28-40, when it does not throw
toJPub(gameState, playerName) ==
    [ tileStar |-> Len(gameState.remainingTiles),
      players |-> toJPubPlayers(gameState.players, playerName) ]

\* qState.ts lines 47-49
toQTile(jTile) == [shape |-> jTile.shape, color |-> jTile.color]

\* PlayerState is not part of the sources at hand: a new PlayerState wraps
\* its player with no tiles and score 0, setTiles replaces the tiles and
\* updateScore adds to the score
PlayerState(player) == [player |-> player, tiles |-> <<>>, score |-> 0]
setTiles(playerState, newHand) == [playerState EXCEPT !.tiles = newHand]
updateScore(playerState, points) == [playerState EXCEPT !.score = @ + points]

\* qState.ts lines 23-26: qPlayers[index] is undefined for a player beyond
\* the records, and reading its 'tile*' throws a TypeError
toQStateThrows(jState, givenPlayers) == Len(givenPlayers) > Len(jState.players)

\* a conversion that gives every player the first record
toQStateFirstRecord(jState, givenPlayers) ==
    [ qTilesInBag |-> [k \in 1 .. Len(jState.tileStar) |->
                            toQTile(jState.tileStar[k])],
      playerStates |->
        [index \in 1 .. Len(givenPlayers) |->
            LET qPlayer == jState.players[1] IN
            updateScore(
                setTiles(PlayerState(givenPlayers[index]),
                         [k \in 1 .. Len(qPlayer.tileStar) |->
                                toQTile(qPlayer.tileStar[k])]),
                qPlayer.score)] ]

\* qState.ts lines 15-33, when it does not throw (the map is left out)
toQState(jState, givenPlayers) ==
    [ qTilesInBag |-> [k \in 1 .. Len(jState.tileStar) |->
                            toQTile(jState.tileStar[k])],
      playerStates |->
        [index \in 1 .. Len(givenPlayers) |->
            LET qPlayer == jState.players[index] IN
            updateScore(
                setTiles(PlayerState(givenPlayers[index]),
                         [k \in 1 .. Len(qPlayer.tileStar) |->
                                toQTile(qPlayer.tileStar[k])]),
                qPlayer.score)] ]

ConversionPending(fn) == conv.fn = fn /\ convOut = <<>> /\ ~convThrew

\* the call toJPub(conv.gameState, conv.playerName)
CallToJPub ==
    /\ ConversionPending("toJPub")
    /\ IF toJPubPlayersThrows(conv.gameState.players, conv.playerName)
         THEN convThrew' = TRUE /\ convOut' = convOut
         ELSE /\ convOut' = << toJPub(conv.gameState, conv.playerName) >>
              /\ convThrew' = FALSE
    /\ UNCHANGED << conv, tcpVars, playerVars, observerVars >>

\* the call toQState(conv.jState, conv.players)
CallToQState ==
    /\ ConversionPending("toQState")
    /\ IF toQStateThrows(conv.jState, conv.players)
         THEN convThrew' = TRUE /\ convOut' = convOut
         ELSE /\ convOut' = << toQState(conv.jState, conv.players) >>
              /\ convThrew' = FALSE
    /\ UNCHANGED << conv, tcpVars, playerVars, observerVars >>

JsonSpecInit ==
    /\ TcpIdle
    /\ PlayerIdle
    /\ ObserverInit
    /\ conv \in ConversionCalls
    /\ convOut = <<>>
    /\ convThrew = FALSE

JsonNext ==
    \/ CallToJPub
    \/ CallToQState

JsonSpec == JsonSpecInit /\ [][JsonNext]_vars

----------------------------------------------------------------------------
(***************************************************************************)
(* Properties of runTCPGame (Spec, FairSpec).                              *)
(***************************************************************************)
\* C1: if the waiting resolves with fewer than SERVER_MIN_PLAYERS players
\* signed up, runTCPGame starts no game and returns the empty GameResult:
\* the resolved flag is false, and from then on runTCPGame is at
\* runGameIfPossible or past it with startGame never called and, once it
\* returned, with EMPTY_RESULT (no winner names, no eliminated names).
C1_NoGameEmptyResult ==
    /\ (phase = "resolved" /\ Len(players) < SERVER_MIN_PLAYERS)
            => ~enoughPlayersToRun
    /\ (phase \notin { "listening", "waiting" } /\ ~enoughPlayersToRun)
            => /\ ~gameStarted
               /\ phase \in { "resolved", "returned", "done" }
               /\ phase \in { "returned", "done" }
                    => gameResult = << <<>>, <<>> >>

\* a client connected, both of two waiting periods expired, and runTCPGame
\* returned
C1_Witness ==
    /\ phase = "done"
    /\ config.serverTries = 2
    /\ attempt = 2
    /\ sock[1] # "none"
    /\ Len(players) < SERVER_MIN_PLAYERS
    /\ gameResult = << <<>>, <<>> >>

\* C2, as claimed: in every execution of runTCPGame, whatever the number of
\* clients that connect (none included), the waiting phase eventually ends.
C2_WaitingEnds == <>(phase \notin { "listening", "waiting" })

\* C2, amended: in every execution of runTCPGame in which a client connects,
\* the waiting phase eventually ends under fair timers, and runTCPGame
\* goes on to return a result.
C2_WaitingEndsOnceConnected ==
    (phase = "waiting") ~> (phase = "done" /\ gameResult # NoResult)

\* one client connected, the one permitted period of 1000 ms expired, and
\* runTCPGame returned
C2_Witness ==
    /\ phase = "done"
    /\ config.serverTries = 1
    /\ sock[1] # "none"
    /\ sock[2] = "none"
    /\ now = 1000
    /\ gameResult # NoResult

\* C3: every client that connects while the server is listening or waiting
\* for players is given a TCPConnection and a TCPPlayer and is signed up.
C3_ConnectedIsSignedUp ==
    \A c \in Clients :
        sock[c] # "none"
            => /\ c \in Range(connections)
               /\ nameState[c] # "none"

\* in runTCPGame no sign-up is in progress at any time: the actions of
\* signUp, which Next leaves out, are never enabled
NoSignUpWhileWaiting ==
    /\ players = <<>>
    /\ \A c \in Clients : nameState[c] = "none" /\ raceWinner[c] = "none"
    /\ phase \notin { "naming", "running", "failed" }

----------------------------------------------------------------------------
(***************************************************************************)
(* Properties of signUp and waitForAdditionalPlayers (LobbySpec).          *)
(***************************************************************************)
\* C4: a player is in the roster if and only if its name() resolved before
\* the sign-up timeout fired; a player whose name arrives after the timeout
\* is never added.
C4_RosterOnlyTimelyNames ==
    \A c \in Clients : c \in Range(players) <=> raceWinner[c] = "name"

AllSignUpsSettled ==
    /\ \E c \in Clients : raceWinner[c] # "none"
    /\ \A c \in Clients : raceWinner[c] # "pending"

\* C5: the roster never holds a player twice and holds exactly the players
\* whose name() callback ran; once all sign-ups have settled, every player
\* whose sign-up succeeded is in it exactly once.
C5_RosterSerialized ==
    /\ \A c \in Clients :
        Occurrences(players, c) = IF nameState[c] = "resolved" THEN 1 ELSE 0
    /\ AllSignUpsSettled
        => \A c \in Clients :
            raceWinner[c] = "name" => Occurrences(players, c) = 1

\* three sign-ups ran concurrently: the second client's name arrived before
\* the first one's, the third sign-up did not succeed
C5_Witness ==
    /\ AllSignUpsSettled
    /\ players = << 2, 1 >>
    /\ raceWinner[1] = "name"
    /\ raceWinner[2] = "name"
    /\ raceWinner[3] \in { "timer", "nameError" }

\* C9: for server-tries >= 1 the number of waiting periods entered (attempt)
\* never exceeds server-tries; a further period is entered only by a check
\* that finds the current period expired, fewer than SERVER_MIN_PLAYERS in
\* the roster and fewer than server-tries periods used, and it measures its
\* deadline from its own start; false is resolved only at the expiry of
\* period number server-tries.
C9_Step ==
    /\ attempt' <= config.serverTries
    /\ attempt' # attempt
        => /\ attempt' = attempt + 1
           /\ now >= start + 1000 * config.serverWait
           /\ Len(players) < SERVER_MIN_PLAYERS
           /\ attempt < config.serverTries
           /\ start' = now
           /\ intervalOn' /\ nextCheck' = now + 200
    /\ attempt' = attempt => start' = start
    /\ (phase = "waiting" /\ phase' = "resolved" /\ ~enoughPlayersToRun')
        => /\ attempt = config.serverTries
           /\ now >= start + 1000 * config.serverWait
           /\ Len(players) < SERVER_MIN_PLAYERS

\* C9: every step of a run with server-tries >= 1 keeps to the waiting
\* periods described above.
C9_WaitingPeriods == [][config.serverTries >= 1 => C9_Step]_vars

\* with server-tries = 2 the second period expired, one player signed up,
\* and false was resolved
C9_Witness ==
    /\ config.serverTries = 2
    /\ phase = "resolved"
    /\ ~enoughPlayersToRun
    /\ attempt = 2
    /\ start = 1000
    /\ now = 2000
    /\ Len(players) = 1

\* C13: a game is started only if waitForAdditionalPlayers resolved true;
\* it resolves true only at a check that finds at least SERVER_MIN_PLAYERS
\* players in the roster: at least SERVER_MAX_PLAYERS, or the period
\* expired; the roster handed to the referee has at least
\* SERVER_MIN_PLAYERS players.
C13_GameOnlyWithEnoughPlayers ==
    /\ (gameStarted \/ phase \in { "naming", "running" }) => enoughPlayersToRun
    /\ (phase = "resolved" /\ enoughPlayersToRun)
        => /\ Len(players) >= 2
           /\ \/ Len(players) >= 4
              \/ now >= start + 1000 * config.serverWait
    /\ phase \in { "naming", "running" } => Len(asked) >= 2
    /\ gameStarted => Len(players) >= 2

\* the first period expired with one player, the second one with two, and
\* the game was started with these two
C13_Witness ==
    /\ gameStarted
    /\ phase = "running"
    /\ attempt = 2
    /\ now = 2000
    /\ Len(players) = 2

\* the promise signUp returns is never rejected, and a sign-up that began
\* at time t is unsettled at most until t + wait-for-signup milliseconds,
\* whether name() resolves, rejects or does not settle
SignUpBounded ==
    \A c \in Clients :
        /\ signUpPromise(raceWinner'[c]) # "rejected"
        /\ (raceWinner[c] = "none" /\ raceWinner'[c] # "none")
            => /\ raceWinner'[c] = "pending"
               /\ deadline'[c] = now + 1000 * config.waitForSignup
        /\ raceWinner'[c] = "pending"
            => /\ now' <= deadline'[c]
               /\ raceWinner[c] = "pending" => deadline'[c] = deadline[c]

\* the step that settles a sign-up by the timeout or by a rejected name()
\* leaves the roster as it is, and a player whose name() rejected or has
\* not settled is not in the roster
SignUpFailureKeepsRoster ==
    \A c \in Clients :
        /\ (raceWinner[c] = "pending" /\ raceWinner'[c] \in { "timer", "nameError" })
            => players' = players
        /\ nameState'[c] \in { "pending", "rejected" }
            => \A k \in 1 .. Len(players') : players'[k] # c

\* what holds of signUp: it resolves, in time, and a failure leaves the
\* roster alone as long as the name has not arrived
SignUpResolvesInTime == [][SignUpBounded /\ SignUpFailureKeepsRoster]_vars

\* C15: the promise signUp returns is never rejected and settles within
\* wait-for-signup milliseconds of the beginning of the sign-up, whether
\* name() resolves, rejects or does not settle; the player of a sign-up
\* that a rejected name() or the timeout settled is not in the roster,
\* then and later.
C15_Step ==
    /\ SignUpBounded
    /\ \A c \in Clients :
        raceWinner'[c] \in { "timer", "nameError" }
            => \A k \in 1 .. Len(players') : players'[k] # c

\* C15: every step keeps to the above.
C15_SignUpSettlesInTime == [][C15_Step]_vars

----------------------------------------------------------------------------
(***************************************************************************)
(* Properties of a crowded sign-up phase (CrowdSpec).                      *)
(***************************************************************************)
\* the interval timer of the current period fired
CheckFired ==
    /\ phase = "waiting"
    /\ << nextCheck, attempt, intervalOn, phase >>'
            # << nextCheck, attempt, intervalOn, phase >>

\* C14: while fewer than SERVER_MAX_PLAYERS players are signed up and the
\* period has not expired, waitForAdditionalPlayers does not resolve and
\* does not restart; a check that finds at least SERVER_MAX_PLAYERS
\* players resolves true; once resolved no interval timer is set, and a
\* restarted period has one timer, set anew to fire checkIntervalMs after
\* the restart.
C14_Step ==
    /\ (phase = "waiting" /\ Len(players) < 4
            /\ now < start + 1000 * config.serverWait)
        => /\ phase' = "waiting"
           /\ attempt' = attempt
           /\ start' = start
    /\ (CheckFired /\ Len(players) >= 4)
        => /\ phase' = "resolved"
           /\ enoughPlayersToRun'
    /\ phase' = "waiting" <=> intervalOn'
    /\ attempt' # attempt
        => /\ nextCheck' = now + 200
           /\ start' = now

\* C14: every step keeps to the above.
C14_WaitsUntilFullOrExpired == [][C14_Step]_vars

\* four players were signed up at the first check, 200 ms into a period of
\* 1000 ms: true was resolved and the timer cleared
C14_Witness ==
    /\ phase = "resolved"
    /\ enoughPlayersToRun
    /\ Len(players) = 4
    /\ start = 0
    /\ now = 200
    /\ config.serverWait = 1
    /\ ~intervalOn

\* C20: the roster handed to the referee holds at most SERVER_MAX_PLAYERS
\* players, and once the game has been started no step changes the roster.
C20_Step ==
    /\ (~gameStarted /\ gameStarted') => Len(players') <= 4
    /\ gameStarted => players' = players

RosterAtMostMax == [][(~gameStarted /\ gameStarted') => Len(players') <= 4]_vars

RosterFrozenOnceStarted == [][gameStarted => players' = players]_vars

\* C20: every step keeps to the above.
C20_RosterBoundedAndFrozen == [][C20_Step]_vars

----------------------------------------------------------------------------
(***************************************************************************)
(* Properties of runGameIfPossible (CallSpec).                             *)
(***************************************************************************)
\* C11: a signed-up player whose name() call of runGameIfPossible fails
\* does not make runTCPGame fail: runTCPGame never rejects.
C11_NameFaultsIsolated == phase # "failed"

\* C10: when the game is not run, win(false) has been called exactly once
\* on every player of the roster and on nobody else, whichever of these
\* calls threw, and the result is the empty result.
C10_NoGameInformsAll ==
    (phase \in { "returned", "done" } /\ ~enoughPlayersToRun)
        => /\ \A c \in Clients :
                winCalls[c] = IF c \in Range(players) THEN 1 ELSE 0
           /\ gameResult = << <<>>, <<>> >>

\* the first of three players threw, the third was informed all the same
C10_Witness ==
    /\ phase = "done"
    /\ ~enoughPlayersToRun
    /\ Len(players) = 3
    /\ players[1] \in winThrew
    /\ winCalls[players[3]] = 1
    /\ gameResult = << <<>>, <<>> >>

----------------------------------------------------------------------------
(***************************************************************************)
(* Properties of BasePlayer (PlayerSpec).                                  *)
(***************************************************************************)
Count(s, t) == Cardinality({ i \in 1 .. Len(s) : s[i] = t })

PlacedTiles == [k \in 1 .. Len(action.placements) |-> action.placements[k].tile]

TookTurn(type) == returned /\ call.op = "takeTurn" /\ action.type = type

\* C6: after a takeTurn whose action is PLACE the hand is the multiset
\* difference of the given hand and the placed tiles.
C6_PlaceRemovesPlacedTiles ==
    TookTurn("PLACE")
        => \A t \in Tiles :
            Count(tiles, t) =
                IF Count(call.st, t) >= Count(PlacedTiles, t)
                  THEN Count(call.st, t) - Count(PlacedTiles, t)
                  ELSE 0

\* C7: after a takeTurn whose action is EXCHANGE the hand is empty; after
\* one whose action is neither PLACE nor EXCHANGE the hand is s.playerTiles.
C7_ExchangeEmptiesPassKeeps ==
    /\ TookTurn("EXCHANGE") => tiles = <<>>
    /\ (returned /\ call.op = "takeTurn"
            /\ action.type \notin { "PLACE", "EXCHANGE" })
        => tiles = call.st

\* a full hand was given and exchanged, the hand held before was another
C7_Witness ==
    /\ TookTurn("EXCHANGE")
    /\ Len(call.st) = MaxHand
    /\ handBefore # call.st
    /\ handBefore # <<>>
    /\ tiles = <<>>

\* C12: after newTiles(st) the hand is the hand held before followed by
\* st: no tile held before is lost or moved, and the hand has grown by the
\* length of st.
C12_NewTilesAppends ==
    (returned /\ call.op = "newTiles")
        => /\ Len(tiles) = Len(handBefore) + Len(call.st)
           /\ \A k \in 1 .. Len(handBefore) : tiles[k] = handBefore[k]
           /\ \A k \in 1 .. Len(call.st) : tiles[Len(handBefore) + k] = call.st[k]

\* two tiles were held, two other tiles were handed over
C12_Witness ==
    /\ returned
    /\ call.op = "newTiles"
    /\ Len(handBefore) = 2
    /\ Len(call.st) = 2
    /\ handBefore[1] # handBefore[2]
    /\ call.st # handBefore
    /\ Len(tiles) = 4

----------------------------------------------------------------------------
(***************************************************************************)
(* Properties of BaseObserver (ObserverSpec).                              *)
(***************************************************************************)
NoNextState ==
    stateHistory = <<>> \/ currentStateIndex = Len(stateHistory) - 1

NoPreviousState == currentStateIndex = 0

Unmoved ==
    /\ currentStateIndex' = currentStateIndex
    /\ stateHistory' = stateHistory
    /\ viewCalls' = <<>>

MovedBy(d) ==
    /\ currentStateIndex' = currentStateIndex + d
    /\ stateHistory' = stateHistory
    /\ currentStateIndex' \in 0 .. Len(stateHistory) - 1
    /\ viewCalls' = << << "html", stateHistory[currentStateIndex' + 1] >> >>

\* C8: nextState with no next state and previousState with no previous
\* state change neither the index nor the history and do not call the
\* update-view callback; otherwise they move the index by one and call the
\* callback once, with the state at the new index.
C8_Step ==
    /\ obsCall' = "nextState" => IF NoNextState THEN Unmoved ELSE MovedBy(1)
    /\ obsCall' = "previousState"
        => IF NoPreviousState THEN Unmoved ELSE MovedBy(-1)

\* C8: every nextState and previousState step is a guarded-out call that
\* changes nothing or a move by one with one call of the callback.
C8_MovesWithinHistory == [][C8_Step]_vars

\* nextState was called at the last of two states, and changed nothing
C8_Witness ==
    /\ obsCall = "nextState"
    /\ Len(stateHistory) = 2
    /\ currentStateIndex = 1
    /\ viewCalls = <<>>

\* C16: receiveState appends exactly the received state at the end of
\* stateHistory (the earlier entries stay, in their order), leaves
\* currentStateIndex unchanged, and calls the update-view callback exactly
\* once, with the state at currentStateIndex.
C16_Step ==
    obsCall' = "receiveState"
        => /\ Len(received') = 1
           /\ Len(stateHistory') = Len(stateHistory) + 1
           /\ \A k \in 1 .. Len(stateHistory) : stateHistory'[k] = stateHistory[k]
           /\ stateHistory'[Len(stateHistory')] = received'[1]
           /\ currentStateIndex' = currentStateIndex
           /\ viewCalls' = << << "html", stateHistory'[currentStateIndex + 1] >> >>

\* C16: every receiveState step appends the received state, keeps the
\* index and calls the callback once with the current state.
C16_ReceiveAppends == [][C16_Step]_vars

\* a third state was received while the view showed the second one
C16_Witness ==
    /\ obsCall = "receiveState"
    /\ Len(stateHistory) = 3
    /\ currentStateIndex = 1
    /\ stateHistory[3] # stateHistory[2]
    /\ stateHistory[2] # stateHistory[1]
    /\ received = << stateHistory[3] >>
    /\ viewCalls = << << "html", stateHistory[2] >> >>

SameTiles(jTiles, qTiles) ==
    /\ Len(jTiles) = Len(qTiles)
    /\ \A k \in 1 .. Len(qTiles) :
        jTiles[k].shape = qTiles[k].shape /\ jTiles[k].color = qTiles[k].color

\* C17: saveState changes neither stateHistory nor currentStateIndex; for
\* a non-empty history it serializes the state at currentStateIndex: it
\* fails when that state has no players and otherwise writes the players
\* and the remaining tiles of that state, in the same number and order.
C17_Step ==
    obsCall' = "saveState"
        => /\ stateHistory' = stateHistory
           /\ currentStateIndex' = currentStateIndex
           /\ stateHistory # <<>>
                => LET current == stateHistory[currentStateIndex + 1] IN
                   IF Len(current.players) = 0
                     THEN threw' /\ saved' = saved
                     ELSE /\ ~threw'
                          /\ Len(saved') = 1
                          /\ SameTiles(saved'[1].tileStar, current.remainingTiles)
                          /\ Len(saved'[1].players) = Len(current.players)
                          /\ \A k \in 1 .. Len(current.players) :
                                /\ saved'[1].players[k].name = current.players[k].name
                                /\ saved'[1].players[k].score = current.players[k].score
                                /\ SameTiles(saved'[1].players[k].tileStar,
                                             current.players[k].tiles)

\* C17: every saveState step serializes the state at currentStateIndex and
\* leaves the history and the index alone.
C17_SaveStateSavesCurrent == [][C17_Step]_vars

\* the view shows the first of two states, a state of two players; the one
\* received last has no players; the first one was saved
C17_Witness ==
    /\ obsCall = "saveState"
    /\ ~threw
    /\ Len(stateHistory) = 2
    /\ currentStateIndex = 0
    /\ Len(stateHistory[1].players) = 2
    /\ Len(stateHistory[2].players) = 0
    /\ Len(saved) = 1
    /\ Len(saved[1].players) = 2
    /\ saved[1].players[1].name = "ann"
    /\ saved[1].players[2].name = "bob"

----------------------------------------------------------------------------
(***************************************************************************)
(* Properties of the conversion functions (JsonSpec).                      *)
(***************************************************************************)
Converted(fn) == conv.fn = fn /\ (convOut # <<>> \/ convThrew)

DistinctNames(statePlayers) ==
    \A i, j \in 1 .. Len(statePlayers) :
        i # j => statePlayers[i].name # statePlayers[j].name

\* C18: toJPub(gameState, playerName) fails when no player has that name;
\* when the names are pairwise distinct and a player has that name, it
\* returns 'tile*' = the number of remaining tiles and a players list of as
\* many elements as there are players: first the full record of the player
\* of that name, then the scores of all the others in their original order.
C18_ToJPub ==
    Converted("toJPub")
        => LET given == conv.gameState.players
               named == Named(given, conv.playerName)
           IN  /\ named = {} => convThrew /\ convOut = <<>>
               /\ (named # {} /\ DistinctNames(given))
                    => /\ ~convThrew
                       /\ Len(convOut) = 1
                       /\ convOut[1].tileStar = Len(conv.gameState.remainingTiles)
                       /\ Len(convOut[1].players) = Len(given)
                       /\ LET j == CHOOSE i \in named : TRUE
                              first == convOut[1].players[1]
                          IN  /\ first.name = conv.playerName
                              /\ first.score = given[j].score
                              /\ SameTiles(first.tileStar, given[j].tiles)
                              /\ \A k \in 1 .. Len(given) :
                                    /\ k < j => convOut[1].players[k + 1] = given[k].score
                                    /\ k > j => convOut[1].players[k] = given[k].score

\* three players of distinct names, the second one is asked for, the two
\* others differ in score, two tiles remain
C18_Witness ==
    /\ Converted("toJPub")
    /\ ~convThrew
    /\ Len(conv.gameState.players) = 3
    /\ DistinctNames(conv.gameState.players)
    /\ conv.gameState.players[2].name = conv.playerName
    /\ conv.gameState.players[1].score = 3
    /\ conv.gameState.players[3].score = 0
    /\ Len(conv.gameState.remainingTiles) = 2
    /\ convOut[1].players[2] = 3
    /\ convOut[1].players[3] = 0

\* C19: toQState(jState, players) fails when there are more players than
\* records; otherwise it returns one PlayerState per given player, in the
\* given order, the i-th wrapping the i-th player with the tiles and the
\* score of the i-th record, and the bag tiles in the order of 'tile*'.
C19_ToQState ==
    Converted("toQState")
        => IF Len(conv.players) > Len(conv.jState.players)
             THEN convThrew /\ convOut = <<>>
             ELSE /\ ~convThrew
                  /\ Len(convOut) = 1
                  /\ SameTiles(conv.jState.tileStar, convOut[1].qTilesInBag)
                  /\ Len(convOut[1].playerStates) = Len(conv.players)
                  /\ \A i \in 1 .. Len(conv.players) :
                        /\ convOut[1].playerStates[i].player = conv.players[i]
                        /\ convOut[1].playerStates[i].score
                                = conv.jState.players[i].score
                        /\ SameTiles(conv.jState.players[i].tileStar,
                                     convOut[1].playerStates[i].tiles)

\* two players and three records, the first two records differ in score
\* and tiles; two different tiles in the bag
C19_Witness ==
    /\ Converted("toQState")
    /\ ~convThrew
    /\ Len(conv.players) = 2
    /\ Len(conv.jState.players) = 3
    /\ conv.jState.players[1].score # conv.jState.players[2].score
    /\ conv.jState.players[1].tileStar # conv.jState.players[2].tileStar
    /\ Len(conv.jState.tileStar) = 2
    /\ conv.jState.tileStar[1] # conv.jState.tileStar[2]
    /\ convOut[1].playerStates[2].score = conv.jState.players[2].score

============================================================================
